---- MODULE Spec2Model ----
(***************************************************************************)
(* A model of the chatroom synchronisation core: the Change catalog        *)
(* (chatroom/change.py), the Topic container (chatroom/topic.py), the      *)
(* StateMachine that records Transitions and replays them for undo/redo,   *)
(* and the ClientManager that broadcasts committed changes to subscribers  *)
(* (chatroom/server/client_manager.py).                                    *)
(* The StateMachine's code is not part of the source tree; it is modelled  *)
(* from the specification's section 4.3.                                   *)
(***************************************************************************)
EXTENDS Integers, Sequences, FiniteSets, TLC

\* ------------------------------------------------------------------ bounds

\* Items of a set-as-list topic are the integers 1..MaxItem.
MaxItem == 2
\* Longest list a whole-value Set carries.
MaxLen == 2
\* Most changes applied inside one recording scope.
MaxScope == 2
\* Most Transitions the transition callback receives in one behaviour.
MaxTransitions == 1
\* Integers of the int kind lie in -MaxInt..MaxInt.
MaxInt == 2
\* Floats of the float kind lie in -MaxFloat..MaxFloat (in units).
MaxFloat == 9
\* Significant bits of a float's mantissa (an IEEE double has 53; the
\* rounding rule, round-half-to-even, is the same at any width).
FloatMantBits == 3
\* Keys of a dict topic are 1..MaxKey.
MaxKey == 2

\* ------------------------------------------------------------ Python values

\* A Python value is a tagged record; the tag is compared first, so values of
\* different runtime types are unequal, as with Python's ==.
PyNone == [t |-> "none", v |-> <<>>]
PyStr(s) == [t |-> "str", v |-> s]
PyInt(n) == [t |-> "int", v |-> <<n>>]
PyFloat(x) == [t |-> "float", v |-> <<x>>]
PyList(l) == [t |-> "list", v |-> l]
PyDict(f) == [t |-> "dict", v |-> f]

EmptyDict == PyDict([k \in {} |-> PyNone])

\* Python's == on the values above.
PyEq(a, b) == a.t = b.t /\ a.v = b.v

\* `x in l` for a list l.
PyIn(x, l) == \E k \in 1..Len(l) : l[k] = x

\* list.remove(x): drops the first occurrence of x.
ListRemove(l, x) ==
    LET i == CHOOSE k \in 1..Len(l) : l[k] = x /\ \A j \in 1..(k - 1) : l[j] # x
    IN  SubSeq(l, 1, i - 1) \o SubSeq(l, i + 1, Len(l))

Abs(x) == IF x < 0 THEN -x ELSE x

RECURSIVE Pow2(_)
Pow2(n) == IF n = 0 THEN 1 ELSE 2 * Pow2(n - 1)

\* The exponent e for which |x| < 2^(FloatMantBits + e), least such.
RECURSIVE FloatExp(_, _)
FloatExp(a, e) == IF a < Pow2(FloatMantBits + e) THEN e ELSE FloatExp(a, e + 1)

\* Rounding of an exact result to the nearest representable float, ties to
\* the even mantissa (the default IEEE mode Python's float + uses).
FloatRound(x) ==
    LET a == Abs(x)
        step == Pow2(FloatExp(a, 0))
        q == a \div step
        r == a % step
        m == IF 2 * r < step THEN q
             ELSE IF 2 * r > step THEN q + 1
             ELSE IF q % 2 = 0 THEN q ELSE q + 1
    IN  IF x < 0 THEN -(m * step) ELSE m * step

\* Python's a + b on numbers: a float operand makes the result a float.
PyAdd(a, b) ==
    IF a.t = "float" \/ b.t = "float"
    THEN PyFloat(FloatRound(a.v[1] + b.v[1]))
    ELSE PyInt(a.v[1] + b.v[1])

\* Python's unary minus on a number (exact for ints and floats).
PyNeg(a) == [a EXCEPT !.v = << -(a.v[1]) >>]

\* ------------------------------------------------------------------ changes

\* A Change object. topic_type is the catalog namespace of its class
\* (StringChangeTypes, SetChangeTypes, ...), type the operation. Fields an
\* operation does not carry hold PyNone (a value) or 0 (item, key).
MkChange(tn, tt, ty, id, value, old_value, item, key, args, forward_info) ==
    [topic_name |-> tn, topic_type |-> tt, type |-> ty, id |-> id,
     value |-> value, old_value |-> old_value, item |-> item, key |-> key,
     args |-> args, forward_info |-> forward_info]

SetChange(tn, tt, value, old_value, id) ==
    MkChange(tn, tt, "set", id, value, old_value, 0, 0, PyNone, PyNone)
AddChange(tn, tt, value, id) ==
    MkChange(tn, tt, "add", id, value, PyNone, 0, 0, PyNone, PyNone)
AppendChange(tn, item, id) ==
    MkChange(tn, "set", "append", id, PyNone, PyNone, item, 0, PyNone, PyNone)
RemoveChange(tn, item, id) ==
    MkChange(tn, "set", "remove", id, PyNone, PyNone, item, 0, PyNone, PyNone)
DictAddChange(tn, key, value, id) ==
    MkChange(tn, "dict", "add", id, value, PyNone, 0, key, PyNone, PyNone)
DictRemoveChange(tn, key, id) ==
    MkChange(tn, "dict", "remove", id, PyNone, PyNone, 0, key, PyNone, PyNone)
ChangeValueChange(tn, key, value, old_value, id) ==
    MkChange(tn, "dict", "change_value", id, value, old_value, 0, key, PyNone, PyNone)
EmitChange(tn, args, id) ==
    MkChange(tn, "event", "emit", id, PyNone, PyNone, 0, 0, args, EmptyDict)
ReversedEmitChange(tn, args, forward_info, id) ==
    MkChange(tn, "event", "reversed_emit", id, PyNone, PyNone, 0, 0, args, forward_info)

VARIABLES
    pyDebug,      \* Python's __debug__: FALSE under -O, where assert is dropped
    topics,       \* Topic._value of every topic the StateMachine owns
    open,         \* the Transitions being recorded (changes applied so far)
    openPre,      \* the topics' values, and the callback's count, at scope entry
    scopeLog,     \* the changes applied with success inside the open scope
    transitions,  \* what the transition callback has received, in order
    tidCount,     \* Transition identities minted so far
    hist,         \* per received Transition: the topics before and after it,
                  \* and whether a recording scope produced it
    last,         \* the outcome of the last operation, as its caller sees it
    lawPc,        \* catalog law check: "off", "start", "applied", "inverted"
    lawV,         \* the value a catalog operation is applied to
    lawC,         \* the catalog operation
    lawR,         \* the outcome of lawC.apply(lawV)
    lawB,         \* the outcome of lawC.inverse().apply(lawR.value)
    wirePc,       \* wire check: "off", "idle" (a Change to send), "listening",
                  \* "serialized", "received", "deserialized"
    wireC,        \* the Change that was serialized (NoChange for a received dict)
    wire,         \* the wire dict handed to Change.deserialize
    wireD,        \* the outcome of Change.deserialize(wire)
    cmClients,    \* ClientManager: clients connected so far (their ids are 1..cmClients)
    cmClosed,     \* the clients whose websocket is closed
    subscriptions, \* ClientManager._subscriptions: topic name -> set of client ids
    sendingQueue, \* ClientManager._sending_queue, oldest message first
    cmSent,       \* per client, the messages written to its websocket, in order
    cmCommits,    \* Transitions the transition callback has handed to send_update
    cmUuids,      \* uuids drawn for Changes so far
    cmLast        \* the last ClientManager operation and the state it started from

machineVars == <<topics, open, openPre, scopeLog, transitions, tidCount, hist, last>>
lawVars == <<lawPc, lawV, lawC, lawR, lawB>>
wireVars == <<wirePc, wireC, wire, wireD>>
cmVars == <<cmClients, cmClosed, subscriptions, sendingQueue, cmSent, cmCommits, cmUuids,
            cmLast>>
vars == <<pyDebug, topics, open, openPre, scopeLog, transitions, tidCount, hist, last,
          lawPc, lawV, lawC, lawR, lawB, wirePc, wireC, wire, wireD,
          cmClients, cmClosed, subscriptions, sendingQueue, cmSent, cmCommits, cmUuids,
          cmLast>>

\* The outcome of an apply: err is "none" or the exception raised, value the
\* new value, change the Change object as apply left it.
Outcome(err, value, change) == [err |-> err, value |-> value, change |-> change]

\* SetChange.apply: the expected prior value, when given, is asserted.
SetApply(c, old) ==
    IF pyDebug /\ ~PyEq(c.old_value, PyNone) /\ ~PyEq(old, c.old_value)
    THEN Outcome("AssertionError", old, c)
    ELSE Outcome("none", c.value, [c EXCEPT !.old_value = old])

\* IntChangeTypes.AddChange.apply and FloatChangeTypes.AddChange.apply.
AddApply(c, old) == Outcome("none", PyAdd(old, c.value), c)

\* An AppendChange.apply without the membership test.
AppendApplyAnyway(c, old) == Outcome("none", PyList(Append(old.v, c.item)), c)

\* SetChangeTypes.AppendChange.apply.
AppendApply(c, old) ==
    IF PyIn(c.item, old.v)
    THEN Outcome("InvalidChange", old, c)
    ELSE Outcome("none", PyList(Append(old.v, c.item)), c)

\* SetChangeTypes.RemoveChange.apply.
RemoveApply(c, old) ==
    IF ~PyIn(c.item, old.v)
    THEN Outcome("InvalidChange", old, c)
    ELSE Outcome("none", PyList(ListRemove(old.v, c.item)), c)

\* DictChangeTypes.AddChange.apply.
DictAddApply(c, old) ==
    IF c.key \in DOMAIN old.v
    THEN Outcome("InvalidChange", old, c)
    ELSE Outcome("none",
                 PyDict([k \in (DOMAIN old.v) \cup {c.key} |->
                            IF k = c.key THEN c.value ELSE old.v[k]]),
                 c)

\* A dict RemoveChange.apply that lets an absent key pass.
DictRemoveApplyLenient(c, old) ==
    Outcome("none",
            PyDict([k \in (DOMAIN old.v) \ {c.key} |-> old.v[k]]),
            [c EXCEPT !.value = IF c.key \in DOMAIN old.v THEN old.v[c.key] ELSE PyNone])

\* DictChangeTypes.RemoveChange.apply: the removed value is kept in the change.
DictRemoveApply(c, old) ==
    IF c.key \notin DOMAIN old.v
    THEN Outcome("InvalidChange", old, c)
    ELSE Outcome("none",
                 PyDict([k \in (DOMAIN old.v) \ {c.key} |-> old.v[k]]),
                 [c EXCEPT !.value = old.v[c.key]])

\* A ChangeValueChange.apply that never gives the change a new id.
ChangeValueApplyKeepId(c, old, u) ==
    IF c.key \notin DOMAIN old.v
    THEN Outcome("InvalidChange", old, c)
    ELSE Outcome("none",
                 PyDict([old.v EXCEPT ![c.key] = c.value]),
                 [c EXCEPT !.old_value = old.v[c.key]])

\* DictChangeTypes.ChangeValueChange.apply: a stale expectation gives the
\* change a new id (u, a fresh uuid) instead of rejecting it.
ChangeValueApply(c, old, u) ==
    IF c.key \notin DOMAIN old.v
    THEN Outcome("InvalidChange", old, c)
    ELSE Outcome("none",
                 PyDict([old.v EXCEPT ![c.key] = c.value]),
                 [c EXCEPT !.id = IF ~PyEq(c.old_value, old.v[c.key]) THEN u ELSE c.id,
                           !.old_value = old.v[c.key]])

\* EventChangeTypes.EmitChange.apply and ReversedEmitChange.apply.
EmitApply(c, old) == Outcome("none", PyNone, c)

\* change.apply(old_value), dispatched on the change's class; u is the uuid
\* the apply draws when it regenerates the change's id.
Apply(c, old, u) ==
    CASE c.type = "set" -> SetApply(c, old)
      [] c.type = "add" /\ c.topic_type \in {"int", "float"} -> AddApply(c, old)
      [] c.type = "append" -> AppendApply(c, old)
      [] c.type = "remove" /\ c.topic_type = "set" -> RemoveApply(c, old)
      [] c.type = "add" /\ c.topic_type = "dict" -> DictAddApply(c, old)
      [] c.type = "remove" /\ c.topic_type = "dict" -> DictRemoveApply(c, old)
      [] c.type = "change_value" -> ChangeValueApply(c, old, u)
      [] c.type \in {"emit", "reversed_emit"} -> EmitApply(c, old)

\* change.inverse(): a new Change object, whose id is the fresh uuid u.
Inverse(c, u) ==
    CASE c.type = "set" -> SetChange(c.topic_name, c.topic_type, c.old_value, c.value, u)
      [] c.type = "add" /\ c.topic_type \in {"int", "float"} ->
            AddChange(c.topic_name, "int", PyNeg(c.value), u)
      [] c.type = "append" -> RemoveChange(c.topic_name, c.item, u)
      [] c.type = "remove" /\ c.topic_type = "set" -> AppendChange(c.topic_name, c.item, u)
      [] c.type = "add" /\ c.topic_type = "dict" -> DictRemoveChange(c.topic_name, c.key, u)
      [] c.type = "remove" /\ c.topic_type = "dict" ->
            DictAddChange(c.topic_name, c.key, c.value, u)
      [] c.type = "change_value" ->
            ChangeValueChange(c.topic_name, c.key, c.old_value, c.value, u)
      [] c.type = "emit" -> ReversedEmitChange(c.topic_name, c.args, c.forward_info, u)
      [] c.type = "reversed_emit" -> EmitChange(c.topic_name, c.args, u)

\* ------------------------------------------------------------------- topics

\* The StateMachine owns one StringTopic and one SetTopic.
TopicNames == {"s", "l"}

\* Topic.get_type_name() of the topic's class.
TopicKind(n) == IF n = "s" THEN "string" ELSE "set"

\* default_topic_value[kind].
DefaultValue(kind) == IF kind = "string" THEN PyStr("") ELSE PyList(<<>>)

\* The validator chain of a topic: the base-type validator its constructor
\* installs (type_validator(str), type_validator(list)).
TypeValidator(kind, new) ==
    IF kind = "string" THEN new.t = "str" ELSE new.t = "list"

\* A listener invocation.
Event(ev, value, item) == [ev |-> ev, value |-> value, item |-> item]

\* json.dumps / json.loads of a list item (an integer here).
JsonDumps(i) == ToString(i)
JsonLoads(str) == CHOOSE i \in 0..(MaxItem + 1) : ToString(i) = str

\* The elements of a set of integers, in ascending order.
RECURSIVE SortedSeq(_)
SortedSeq(S) ==
    IF S = {} THEN <<>>
    ELSE LET m == CHOOSE x \in S : \A y \in S : x <= y
         IN  <<m>> \o SortedSeq(S \ {m})

\* The items of a list whose json form lies in the set D, each once.
ItemsIn(D) == SortedSeq({JsonLoads(d) : d \in D})

\* A notify_listeners that reports a whole-value Set of a set-as-list topic
\* as raw replacements: a remove for every old element, an append for every
\* new one.
NotifyListenersRaw(kind, c, old, new) ==
    IF kind = "string"
    THEN IF c.topic_type = "string" /\ c.type = "set"
         THEN [unsupported |-> FALSE, events |-> <<Event("on_set", new, 0)>>]
         ELSE [unsupported |-> TRUE, events |-> <<>>]
    ELSE IF c.topic_type = "set" /\ c.type = "set"
         THEN [unsupported |-> FALSE,
               events |-> <<Event("on_set", new, 0)>>
                   \o [k \in 1..Len(old.v) |-> Event("on_remove", PyNone, old.v[k])]
                   \o [k \in 1..Len(new.v) |-> Event("on_append", PyNone, new.v[k])]]
         ELSE IF c.topic_type = "set" /\ c.type = "append"
         THEN [unsupported |-> FALSE,
               events |-> <<Event("on_set", new, 0), Event("on_append", PyNone, c.item)>>]
         ELSE IF c.topic_type = "set" /\ c.type = "remove"
         THEN [unsupported |-> FALSE,
               events |-> <<Event("on_set", new, 0), Event("on_remove", PyNone, c.item)>>]
         ELSE [unsupported |-> TRUE, events |-> <<>>]

\* How many of the listener invocations evs are invocations of ev for item i.
EventCount(evs, ev, i) ==
    Cardinality({k \in 1..Len(evs) : evs[k].ev = ev /\ evs[k].item = i})

\* notify_listeners of the topic's class: the listener invocations it makes,
\* in order, or unsupported when it raises for a change class it does not know.
NotifyListeners(kind, c, old, new) ==
    IF kind = "string"
    THEN IF c.topic_type = "string" /\ c.type = "set"
         THEN [unsupported |-> FALSE, events |-> <<Event("on_set", new, 0)>>]
         ELSE [unsupported |-> TRUE, events |-> <<>>]
    ELSE IF c.topic_type = "set" /\ c.type = "set"
         THEN LET oldSet == {JsonDumps(old.v[k]) : k \in 1..Len(old.v)}
                  newSet == {JsonDumps(new.v[k]) : k \in 1..Len(new.v)}
                  removed == ItemsIn(oldSet \ newSet)
                  added == ItemsIn(newSet \ oldSet)
              IN  [unsupported |-> FALSE,
                   events |-> <<Event("on_set", new, 0)>>
                       \o [k \in 1..Len(removed) |-> Event("on_remove", PyNone, removed[k])]
                       \o [k \in 1..Len(added) |-> Event("on_append", PyNone, added[k])]]
         ELSE IF c.topic_type = "set" /\ c.type = "append"
         THEN [unsupported |-> FALSE,
               events |-> <<Event("on_set", new, 0), Event("on_append", PyNone, c.item)>>]
         ELSE IF c.topic_type = "set" /\ c.type = "remove"
         THEN [unsupported |-> FALSE,
               events |-> <<Event("on_set", new, 0), Event("on_remove", PyNone, c.item)>>]
         ELSE [unsupported |-> TRUE, events |-> <<>>]

\* The outcome of Topic.apply_change. stage says how far the apply got:
\* "apply" (change.apply raised), "validate" (a validator rejected the new
\* value), "notify" (notification raised) or "done". value is Topic._value
\* when apply_change gives control back, events the listener invocations made.
Applied(err, stage, value, change, events) ==
    [err |-> err, stage |-> stage, value |-> value, change |-> change, events |-> events]

\* A _validate_change_and_get_result that runs no validator.
RunNoValidators(old, kind, r) ==
    IF r.err # "none" THEN Applied(r.err, "apply", old, r.change, <<>>)
    ELSE Applied("none", "done", r.value, r.change, <<>>)

\* The validator loop of Topic._validate_change_and_get_result, r being what
\* change.apply gave. A validator's rejection is raised as
\* InvalidChangeError(self, change, message): one argument more than the
\* exception's constructor takes, so what is raised is a TypeError.
RunValidators(old, kind, r) ==
    IF r.err # "none" THEN Applied(r.err, "apply", old, r.change, <<>>)
    ELSE IF ~TypeValidator(kind, r.value)
    THEN Applied("TypeError", "validate", old, r.change, <<>>)
    ELSE Applied("none", "done", r.value, r.change, <<>>)

\* Topic._validate_change_and_get_result on a topic of the given kind whose
\* value is old.
ValidateChangeAndGetResult(old, kind, c, u) ==
    RunValidators(old, kind, Apply(c, old, u))

\* A Topic.apply_change whose except branch does not set the value back.
NotifyNoRestore(old, r, nt, failAt) ==
    IF nt.unsupported
    THEN Applied("Exception", "notify", r.value, r.change, <<>>)
    ELSE IF failAt \in 1..Len(nt.events)
    THEN Applied("ListenerError", "notify", r.value, r.change,
                 SubSeq(nt.events, 1, failAt))
    ELSE Applied("none", "done", r.value, r.change, nt.events)

\* The try block of Topic.apply_change: nt is what notify_listeners does for
\* the validated change. failAt = k > 0 makes the k-th listener invocation
\* raise (when there are that many); 0 makes none. On an exception the value
\* is set back to old_value and the exception is raised again.
NotifyOrRestore(old, r, nt, failAt) ==
    IF nt.unsupported
    THEN Applied("Exception", "notify", old, r.change, <<>>)
    ELSE IF failAt \in 1..Len(nt.events)
    THEN Applied("ListenerError", "notify", old, r.change, SubSeq(nt.events, 1, failAt))
    ELSE Applied("none", "done", r.value, r.change, nt.events)

\* Topic.apply_change after validation gave r.
AssignAndNotify(old, kind, r, failAt) ==
    IF r.err # "none" THEN r
    ELSE NotifyOrRestore(old, r, NotifyListeners(kind, r.change, old, r.value), failAt)

\* Topic.apply_change(change), with notification.
TopicApplyChange(old, kind, c, u, failAt) ==
    AssignAndNotify(old, kind, ValidateChangeAndGetResult(old, kind, c, u), failAt)

\* ------------------------------------------------------------- StateMachine

\* Most listener invocations into an apply before the one that raises.
MaxFail == 2

NoChange == MkChange("", "", "none", 0, PyNone, PyNone, 0, 0, PyNone, PyNone)

\* The values a topic is registered with, and the payloads callers submit.
StrVals == {"", "a"}
Lists == UNION {[1..k -> 1..MaxItem] : k \in 0..MaxLen}
InitialValues(kind) ==
    IF kind = "string" THEN {PyStr(x) : x \in StrVals} ELSE {PyList(l) : l \in Lists}

\* uuid.uuid4(): an id no live Change carries.
UsedIds ==
    {0} \cup UNION {{open[i][j].id : j \in 1..Len(open[i])} : i \in 1..Len(open)} \cup
    UNION {{transitions[i].changes[j].id : j \in 1..Len(transitions[i].changes)} :
              i \in 1..Len(transitions)}
NewUuid(k) == (CHOOSE m \in UsedIds : \A x \in UsedIds : x <= m) + k

\* The changes a caller submits for topic n: the topic's mutators (set,
\* append, remove) and a whole-value Set carrying an expected prior value.
ChangeInputs(n, id) ==
    IF TopicKind(n) = "string"
    THEN {SetChange(n, "string", v, ov, id) :
             v \in {PyStr(x) : x \in StrVals} \cup {PyInt(0)},
             ov \in {PyNone, PyStr("a")}}
    ELSE {SetChange(n, "set", v, ov, id) :
             v \in {PyList(l) : l \in Lists} \cup {PyStr("a")},
             ov \in {PyNone, PyList(<<1>>)}}
         \cup {AppendChange(n, i, id) : i \in 1..MaxItem}
         \cup {RemoveChange(n, i, id) : i \in 1..MaxItem}

\* Which listener raises while a sequence of changes is replayed: the at-th
\* invocation of the step-th apply (step 0: none).
NoFault == [step |-> 0, at |-> 0]
ListenerFaults(k) ==
    {NoFault} \cup {[step |-> st, at |-> a] : st \in 1..k, a \in 1..MaxFail}

\* Applies cs[k..] in order, each through Topic.apply_change, to the topic
\* values tv; the first exception ends the replay and propagates.
RECURSIVE Replay(_, _, _, _)
RECURSIVE ReplayStep(_, _, _, _, _)
Replay(tv, cs, k, lf) ==
    IF k > Len(cs)
    THEN [topics |-> tv, err |-> "none", changes |-> cs]
    ELSE ReplayStep(tv, cs, k, lf,
                    TopicApplyChange(tv[cs[k].topic_name], TopicKind(cs[k].topic_name),
                                     cs[k], 0, IF lf.step = k THEN lf.at ELSE 0))

\* The rest of the replay after step k gave r.
ReplayStep(tv, cs, k, lf, r) ==
    IF r.err # "none"
    THEN [topics |-> [tv EXCEPT ![cs[k].topic_name] = r.value], err |-> r.err,
          changes |-> [cs EXCEPT ![k] = r.change]]
    ELSE Replay([tv EXCEPT ![cs[k].topic_name] = r.value],
                [cs EXCEPT ![k] = r.change], k + 1, lf)

\* The inverses of the changes cs, last change first; u is the last id in use.
Inverses(cs, u) ==
    [k \in 1..Len(cs) |-> Inverse(cs[Len(cs) + 1 - k], u + k)]

\* A record() that nests: it opens a second Transition inside the first.
StartRecordingNested(op) == [open |-> Append(op, <<>>), err |-> "none"]

\* record(): begins a Transition, or is rejected when one is already open.
StartRecording(op) ==
    IF op = <<>>
    THEN [open |-> << <<>> >>, err |-> "none"]
    ELSE [open |-> op, err |-> "ProgrammingError"]

\* A recording that puts the newest change first.
RecordChangeFront(tr, c) == <<c>> \o tr

\* The open Transition after a change was applied inside the scope.
RecordChange(tr, c) == Append(tr, c)

\* Normal exit: the Transition gets its identity.
Seal(tr, tid) == [id |-> tid, changes |-> tr]

\* An undo or redo that forwards the replayed Transition under a new identity.
AfterReplayForward(trs, tids, t) ==
    [transitions |-> Append(trs, [t EXCEPT !.id = tids + 1]), tidCount |-> tids + 1]

\* What the transition callback has received after undo or redo of t.
AfterReplay(trs, tids, t) == [transitions |-> trs, tidCount |-> tids]

\* An abort that still forwards the partial Transition.
AfterAbortForward(trs, tr) == Append(trs, [id |-> 0, changes |-> tr])

\* What the transition callback has received after a scope was aborted.
AfterAbort(trs, tr) == trs

TopicsEq(a, b) == \A n \in TopicNames : PyEq(a[n], b[n])

\* The names of the topics the changes cs address.
Touched(cs) == {cs[k].topic_name : k \in 1..Len(cs)}

\* The record of an operation, before its outcome is filled in.
Last(op) ==
    [op |-> op, err |-> "none", stage |-> "none", topic |-> "", input |-> NoChange,
     before |-> topics, value |-> PyNone, events |-> <<>>,
     inScope |-> open # <<>>, aborted |-> FALSE, rbErr |-> "none",
     pre |-> openPre.topics, log |-> scopeLog, idx |-> 0,
     inPost |-> FALSE, undone |-> 0, afterUndo |-> FALSE,
     delivered |-> Len(transitions), tids |-> tidCount]

\* The record of an apply of the submitted change c to topic n that gave r.
LastApply(n, c, r) ==
    [Last("apply") EXCEPT !.err = r.err, !.stage = r.stage, !.topic = n,
                          !.input = c, !.value = r.value, !.events = r.events]

MachineInit ==
    /\ pyDebug \in BOOLEAN
    /\ topics \in [TopicNames -> UNION {InitialValues(TopicKind(n)) : n \in TopicNames}]
    /\ \A n \in TopicNames : topics[n] \in InitialValues(TopicKind(n))
    /\ open = <<>>
    /\ openPre = [topics |-> topics, delivered |-> 0]
    /\ scopeLog = <<>>
    /\ transitions = <<>>
    /\ tidCount = 0
    /\ hist = <<>>
    /\ last = Last("idle")

LawIdle ==
    /\ lawPc = "off"
    /\ lawV = PyNone
    /\ lawC = NoChange
    /\ lawR = Outcome("none", PyNone, NoChange)
    /\ lawB = Outcome("none", PyNone, NoChange)

\* No wire dict is being handled.
WireOff ==
    /\ wirePc = "off"
    /\ wireC = NoChange
    /\ wire = <<>>
    /\ wireD = [err |-> "none", change |-> NoChange]

\* Most clients that connect.
MaxClients == 2
\* Most uuids drawn for Changes by mutators and subscriptions.
MaxUuids == 3
\* Most messages waiting in the sending queue.
MaxQueue == 2

\* The record of a ClientManager operation: what it was called with, and the
\* sending queue and subscriptions it started from.
CmOp(op, client, topic, queue, subs, changes, action_id) ==
    [op |-> op, client |-> client, topic |-> topic, queue |-> queue, subs |-> subs,
     changes |-> changes, action_id |-> action_id]

\* ClientManager.__init__: no client, no subscription, an empty queue.
CmIdle ==
    /\ cmClients = 0
    /\ cmClosed = {}
    /\ subscriptions = [n \in TopicNames |-> {}]
    /\ sendingQueue = <<>>
    /\ cmSent = [c \in 1..MaxClients |-> <<>>]
    /\ cmCommits = 0
    /\ cmUuids = 0
    /\ cmLast = CmOp("none", 0, "", <<>>, [n \in TopicNames |-> {}], <<>>, "")

Init == MachineInit /\ LawIdle /\ WireOff /\ CmIdle

\* StateMachine.record(): enters a recording scope; r is what record() decides.
Recorded(r) ==
    /\ open' = r.open
    /\ openPre' = IF r.err = "none"
                  THEN [topics |-> topics, delivered |-> Len(transitions)]
                  ELSE openPre
    /\ scopeLog' = IF r.err = "none" THEN <<>> ELSE scopeLog
    /\ last' = [Last("record") EXCEPT !.err = r.err]

Record ==
    /\ lawPc = "off"
    /\ last.op = "idle"
    /\ Len(transitions) < MaxTransitions
    /\ Recorded(StartRecording(open))
    /\ UNCHANGED <<pyDebug, topics, transitions, tidCount, hist, lawVars, wireVars, cmVars>>

\* Abnormal exit: the rollback rb has run, the Transition is dropped and the
\* error goes on to the caller.
ScopeAborted(base, rb) ==
    /\ topics' = rb.topics
    /\ open' = SubSeq(open, 1, Len(open) - 1)
    /\ scopeLog' = <<>>
    /\ transitions' = AfterAbort(transitions, open[Len(open)])
    /\ last' = [base EXCEPT !.aborted = TRUE, !.rbErr = rb.err]
    /\ UNCHANGED openPre

\* The scope after topic n's apply of c gave r. An exception leaving the
\* scope rolls the Transition back before it reaches the caller; a listener's
\* failure the submitter may catch inside the scope instead.
ScopeApplied(n, c, r) ==
    IF r.err = "none"
    THEN /\ topics' = [topics EXCEPT ![n] = r.value]
         /\ open' = [open EXCEPT ![Len(open)] = RecordChange(open[Len(open)], r.change)]
         /\ scopeLog' = Append(scopeLog, r.change)
         /\ last' = LastApply(n, c, r)
         /\ UNCHANGED <<openPre, transitions>>
    ELSE \E abort \in (IF r.err = "ListenerError" THEN BOOLEAN ELSE {TRUE}) :
         IF abort
         THEN \E lf \in ListenerFaults(Len(open[Len(open)])) :
                 ScopeAborted(LastApply(n, c, r),
                              Replay([topics EXCEPT ![n] = r.value],
                                     Inverses(open[Len(open)], NewUuid(2)), 1, lf))
         ELSE /\ topics' = [topics EXCEPT ![n] = r.value]
              /\ last' = LastApply(n, c, r)
              /\ UNCHANGED <<open, openPre, scopeLog, transitions>>

\* A change applied through a topic while a scope is open.
ScopeApply ==
    /\ lawPc = "off"
    /\ last.op = "idle"
    /\ open # <<>>
    /\ Len(open[Len(open)]) < MaxScope
    /\ \E n \in TopicNames, failAt \in 0..MaxFail :
       \E c \in ChangeInputs(n, NewUuid(1)) :
          ScopeApplied(n, c, TopicApplyChange(topics[n], TopicKind(n), c, NewUuid(2), failAt))
    /\ UNCHANGED <<pyDebug, tidCount, hist, lawVars, wireVars, cmVars>>

\* Normal exit of the scope: the Transition is sealed and forwarded.
ScopeExit ==
    /\ lawPc = "off"
    /\ last.op = "idle"
    /\ open # <<>>
    /\ transitions' = Append(transitions, Seal(open[Len(open)], tidCount + 1))
    /\ tidCount' = tidCount + 1
    /\ hist' = Append(hist, [pre |-> openPre.topics, post |-> topics, scoped |-> TRUE])
    /\ open' = SubSeq(open, 1, Len(open) - 1)
    /\ scopeLog' = <<>>
    /\ last' = Last("exit")
    /\ UNCHANGED <<pyDebug, topics, openPre, lawVars, wireVars, cmVars>>

\* applyChange(change) outside any scope gave r: a one-Change Transition.
SmApplied(n, c, r) ==
    /\ topics' = [topics EXCEPT ![n] = r.value]
    /\ last' = LastApply(n, c, r)
    /\ IF r.err = "none"
       THEN /\ transitions' = Append(transitions, Seal(<<r.change>>, tidCount + 1))
            /\ tidCount' = tidCount + 1
            /\ hist' = Append(hist, [pre |-> topics,
                                     post |-> [topics EXCEPT ![n] = r.value],
                                     scoped |-> FALSE])
       ELSE UNCHANGED <<transitions, tidCount, hist>>

SmApplyChange ==
    /\ lawPc = "off"
    /\ last.op = "idle"
    /\ open = <<>>
    /\ Len(transitions) < MaxTransitions
    /\ \E n \in TopicNames, failAt \in 0..MaxFail :
       \E c \in ChangeInputs(n, NewUuid(1)) :
          SmApplied(n, c, TopicApplyChange(topics[n], TopicKind(n), c, NewUuid(2), failAt))
    /\ UNCHANGED <<pyDebug, open, openPre, scopeLog, lawVars, wireVars, cmVars>>

\* undo or redo of transitions[i] replayed with outcome res; fw is what the
\* transition callback has received afterwards.
Replayed(op, i, res, fw) ==
    /\ topics' = res.topics
    /\ transitions' = fw.transitions
    /\ tidCount' = fw.tidCount
    /\ last' = [Last(op) EXCEPT
                   !.err = res.err, !.idx = i,
                   !.inPost = (op = "undo" /\ TopicsEq(topics, hist[i].post)),
                   !.afterUndo = (op = "redo" /\ last.undone = i)]

\* undo(transition): the inverses of its changes, last change first.
Undo ==
    /\ lawPc = "off"
    /\ last.op = "idle"
    /\ open = <<>>
    /\ \E i \in (DOMAIN transitions) \cap (DOMAIN hist) :
       \E lf \in ListenerFaults(Len(transitions[i].changes)) :
          Replayed("undo", i,
                   Replay(topics, Inverses(transitions[i].changes, NewUuid(0)), 1, lf),
                   AfterReplay(transitions, tidCount, transitions[i]))
    /\ UNCHANGED <<pyDebug, open, openPre, scopeLog, hist, lawVars, wireVars, cmVars>>

\* redo of transitions[i] replayed with outcome res: the Change objects of the
\* Transition are the ones applied, and keep what apply wrote into them.
Redone(i, res) ==
    Replayed("redo", i, res,
             AfterReplay([transitions EXCEPT ![i].changes = res.changes], tidCount,
                         transitions[i]))

\* redo(transition): its original Change objects again, in their order.
Redo ==
    /\ lawPc = "off"
    /\ last.op = "idle"
    /\ open = <<>>
    /\ \E i \in (DOMAIN transitions) \cap (DOMAIN hist) :
       \E lf \in ListenerFaults(Len(transitions[i].changes)) :
          Redone(i, Replay(topics, transitions[i].changes, 1, lf))
    /\ UNCHANGED <<pyDebug, open, openPre, scopeLog, hist, lawVars, wireVars, cmVars>>

\* The operation's outcome has reached the caller, who may call again. What
\* is kept is whether the call was an undo, without error, of a Transition in
\* the state that Transition produced.
Return ==
    /\ lawPc = "off"
    /\ last.op # "idle"
    /\ last' = [Last("idle") EXCEPT
                   !.undone = IF last.op = "undo" /\ last.err = "none" /\ last.inPost
                              THEN last.idx ELSE 0]
    /\ UNCHANGED <<pyDebug, topics, open, openPre, scopeLog, transitions, tidCount,
                   hist, lawVars, wireVars, cmVars>>

Next ==
    Record \/ ScopeApply \/ ScopeExit \/ SmApplyChange \/ Undo \/ Redo \/ Return

Spec == Init /\ [][Next]_vars

\* The StateMachine over newly created topics: each holds the default value
\* of its kind.
DefaultInit == Init /\ \A n \in TopicNames : topics[n] = DefaultValue(TopicKind(n))

DefaultSpec == DefaultInit /\ [][Next]_vars

\* ------------------------------------------------- the catalog on its own

\* The values of each topic kind that catalog operations are applied to.
LawKinds == {"generic", "string", "int", "float", "set", "dict", "event"}
DictValues == {PyInt(0), PyInt(1)}
LawValues(kind) ==
    CASE kind = "generic" -> {PyNone, PyInt(1), PyStr("a")}
      [] kind = "string" -> {PyStr(x) : x \in StrVals}
      [] kind = "int" -> {PyInt(n) : n \in (-MaxInt)..MaxInt}
      [] kind = "float" ->
            {PyFloat(x) : x \in {y \in (-MaxFloat)..MaxFloat : FloatRound(y) = y}}
      [] kind = "set" -> {PyList(l) : l \in Lists}
      [] kind = "dict" ->
            {PyDict(f) : f \in UNION {[K -> DictValues] : K \in SUBSET (1..MaxKey)}}
      [] kind = "event" -> {PyNone}

EventArgs == {EmptyDict, PyDict([k \in {1} |-> PyInt(1)])}

\* The operations of a kind's catalog entry, as submitted for a topic "t"
\* whose value is v: a whole-value Set carries no expectation, the right one
\* or a stale one.
LawChanges(kind, v) ==
    (IF kind = "event" THEN {}
     ELSE UNION {{SetChange("t", kind, x, ov, 1) : ov \in {PyNone, v, x}} :
                    x \in LawValues(kind)})
    \cup
    (CASE kind \in {"int", "float"} ->
             {AddChange("t", kind, x, 1) : x \in LawValues(kind)}
       [] kind = "set" ->
             {AppendChange("t", i, 1) : i \in 1..MaxItem}
             \cup {RemoveChange("t", i, 1) : i \in 1..MaxItem}
       [] kind = "dict" ->
             {DictAddChange("t", k, x, 1) : k \in 1..MaxKey, x \in DictValues}
             \cup {DictRemoveChange("t", k, 1) : k \in 1..MaxKey}
             \cup {ChangeValueChange("t", k, x, ov, 1) :
                      k \in 1..MaxKey, x \in DictValues, ov \in DictValues \cup {PyNone}}
       [] kind = "event" ->
             {EmitChange("t", a, 1) : a \in EventArgs}
             \cup {ReversedEmitChange("t", a, f, 1) : a \in EventArgs, f \in EventArgs}
       [] OTHER -> {})

LawInit ==
    /\ pyDebug \in BOOLEAN
    /\ topics = [n \in TopicNames |-> DefaultValue(TopicKind(n))]
    /\ open = <<>>
    /\ openPre = [topics |-> topics, delivered |-> 0]
    /\ scopeLog = <<>>
    /\ transitions = <<>>
    /\ tidCount = 0
    /\ hist = <<>>
    /\ last = Last("idle")
    /\ lawPc = "start"
    /\ \E kind \in LawKinds : \E v \in LawValues(kind) : \E c \in LawChanges(kind, v) :
          /\ lawV = v
          /\ lawC = c
    /\ lawR = Outcome("none", PyNone, NoChange)
    /\ lawB = Outcome("none", PyNone, NoChange)
    /\ WireOff
    /\ CmIdle

\* c.apply(v); 2 is the uuid the apply draws when it needs one.
LawApply ==
    /\ lawPc = "start"
    /\ lawR' = Apply(lawC, lawV, 2)
    /\ lawPc' = "applied"
    /\ UNCHANGED <<pyDebug, machineVars, lawV, lawC, lawB, wireVars, cmVars>>

\* c.inverse().apply(c.apply(v)), once c.apply(v) has succeeded.
LawInverse ==
    /\ lawPc = "applied"
    /\ lawR.err = "none"
    /\ lawB' = Apply(Inverse(lawR.change, 3), lawR.value, 4)
    /\ lawPc' = "inverted"
    /\ UNCHANGED <<pyDebug, machineVars, lawV, lawC, lawR, wireVars, cmVars>>

LawNext == LawApply \/ LawInverse

LawSpec == LawInit /\ [][LawNext]_vars

\* ------------------------------------------------------------ the wire form

\* change.serialize(): the wire dict the change's class writes.
Serialize(c) ==
    CASE c.type = "set" ->
            [topic_name |-> c.topic_name, topic_type |-> c.topic_type, type |-> "set",
             value |-> c.value, old_value |-> c.old_value, id |-> c.id]
      [] c.type = "add" /\ c.topic_type \in {"int", "float"} ->
            [topic_name |-> c.topic_name, topic_type |-> c.topic_type, type |-> "add",
             value |-> c.value, id |-> c.id]
      [] c.type \in {"append", "remove"} /\ c.topic_type = "set" ->
            [topic_name |-> c.topic_name, topic_type |-> "set", type |-> c.type,
             item |-> c.item, id |-> c.id]
      [] c.type = "add" /\ c.topic_type = "dict" ->
            [topic_name |-> c.topic_name, topic_type |-> "dict", type |-> "add",
             key |-> c.key, value |-> c.value, id |-> c.id]
      [] c.type = "remove" /\ c.topic_type = "dict" ->
            [topic_name |-> c.topic_name, topic_type |-> "dict", type |-> "remove",
             key |-> c.key, id |-> c.id]
      [] c.type = "change_value" ->
            [topic_name |-> c.topic_name, topic_type |-> "dict", type |-> "change_value",
             key |-> c.key, value |-> c.value, old_value |-> c.old_value, id |-> c.id]
      [] c.type \in {"emit", "reversed_emit"} ->
            [topic_name |-> c.topic_name, topic_type |-> "event", type |-> c.type,
             args |-> c.args, forward_info |-> c.forward_info, id |-> c.id]

\* The keys of the types table of a kind's catalog entry.
CatalogTypes(tt) ==
    CASE tt \in {"generic", "string"} -> {"set"}
      [] tt \in {"int", "float"} -> {"set", "add"}
      [] tt = "set" -> {"set", "append", "remove"}
      [] tt = "dict" -> {"set", "add", "remove"}
      [] tt = "event" -> {"emit", "reversed_emit"}

\* The keyword parameters of the __init__ of the class types[ty] of kind tt.
InitParams(tt, ty) ==
    CASE ty = "set" -> {"topic_name", "value", "old_value", "id"}
      [] ty = "add" /\ tt = "dict" -> {"topic_name", "key", "value", "id"}
      [] ty = "add" -> {"topic_name", "value", "id"}
      [] ty = "remove" /\ tt = "dict" -> {"topic_name", "key", "id"}
      [] ty \in {"append", "remove"} -> {"topic_name", "item", "id"}
      [] ty = "emit" -> {"topic_name", "args", "id"}
      [] ty = "reversed_emit" -> {"topic_name", "args", "forward_info", "id"}

\* Those of them that have no default.
InitRequired(tt, ty) ==
    InitParams(tt, ty) \ {"old_value", "id", "args", "forward_info"}

\* dict.get(k, default) on a wire dict.
WireGet(w, k, default) == IF k \in DOMAIN w THEN w[k] ELSE default

\* types[ty](**kwargs) of kind tt: the constructor call; u is the uuid drawn
\* when the dict carries no id.
Construct(tt, ty, w, u) ==
    CASE ty = "set" ->
            SetChange(w.topic_name, tt, w.value, WireGet(w, "old_value", PyNone),
                      WireGet(w, "id", u))
      [] ty = "add" /\ tt = "dict" ->
            DictAddChange(w.topic_name, w.key, w.value, WireGet(w, "id", u))
      [] ty = "add" -> AddChange(w.topic_name, tt, w.value, WireGet(w, "id", u))
      [] ty = "remove" /\ tt = "dict" ->
            DictRemoveChange(w.topic_name, w.key, WireGet(w, "id", u))
      [] ty = "append" -> AppendChange(w.topic_name, w.item, WireGet(w, "id", u))
      [] ty = "remove" -> RemoveChange(w.topic_name, w.item, WireGet(w, "id", u))
      [] ty = "emit" ->
            EmitChange(w.topic_name, WireGet(w, "args", EmptyDict), WireGet(w, "id", u))
      [] ty = "reversed_emit" ->
            ReversedEmitChange(w.topic_name, WireGet(w, "args", EmptyDict),
                               WireGet(w, "forward_info", EmptyDict), WireGet(w, "id", u))

\* The outcome of Change.deserialize: the Change built, or the exception.
Deserialized(err, change) == [err |-> err, change |-> change]

\* A deserialize that reads a dict of an unknown kind or operation as a
\* whole-value Set of the generic kind.
DeserializeAsGeneric(w, u) ==
    Deserialized("none",
                 SetChange(w.topic_name, "generic", WireGet(w, "value", PyNone), PyNone, u))

\* Change.deserialize(change_dict): two table lookups, each a KeyError when
\* the key is unknown, then the constructor call with the remaining entries
\* as keyword arguments, a TypeError when they do not fit its parameters.
Deserialize(w, u) ==
    IF w.topic_type \notin LawKinds THEN Deserialized("KeyError", NoChange)
    ELSE IF w.type \notin CatalogTypes(w.topic_type)
    THEN Deserialized("KeyError", NoChange)
    ELSE IF ~((DOMAIN w) \ {"type", "topic_type"} \subseteq InitParams(w.topic_type, w.type))
              \/ ~(InitRequired(w.topic_type, w.type) \subseteq DOMAIN w)
    THEN Deserialized("TypeError", NoChange)
    ELSE Deserialized("none", Construct(w.topic_type, w.type, w, u))

\* Wire dicts a client sends that name a kind or an operation the catalog
\* does not have.
ForeignWires ==
    {[topic_name |-> "t", topic_type |-> tt, type |-> ty, value |-> PyInt(1), id |-> 1] :
        tt \in LawKinds \cup {"bogus"}, ty \in {"set", "add", "bogus"}}
    \cup {[topic_name |-> "t", topic_type |-> tt, type |-> ty, item |-> 1, id |-> 1] :
        tt \in LawKinds \cup {"bogus"}, ty \in {"append", "remove"}}

\* The server has a Change of the catalog, for a value of its kind, or
\* listens for a client's wire dict.
WireInit ==
    /\ pyDebug \in BOOLEAN
    /\ topics = [n \in TopicNames |-> DefaultValue(TopicKind(n))]
    /\ open = <<>>
    /\ openPre = [topics |-> topics, delivered |-> 0]
    /\ scopeLog = <<>>
    /\ transitions = <<>>
    /\ tidCount = 0
    /\ hist = <<>>
    /\ last = Last("idle")
    /\ \/ /\ lawPc = "start"
          /\ \E kind \in LawKinds : \E v \in LawValues(kind) :
             \E c \in LawChanges(kind, v) :
                /\ lawV = v
                /\ lawC = c
          /\ lawR = Outcome("none", PyNone, NoChange)
          /\ lawB = Outcome("none", PyNone, NoChange)
          /\ wirePc = "idle"
       \/ LawIdle /\ wirePc = "listening"
    /\ wireC = NoChange
    /\ wire = <<>>
    /\ wireD = Deserialized("none", NoChange)
    /\ CmIdle

\* c.serialize(), of a Change as constructed or as its apply left it.
WireSerialize ==
    /\ wirePc = "idle"
    /\ \/ lawPc = "start" /\ wireC' = lawC
       \/ lawPc = "applied" /\ lawR.err = "none" /\ wireC' = lawR.change
    /\ wire' = Serialize(wireC')
    /\ wirePc' = "serialized"
    /\ UNCHANGED <<pyDebug, machineVars, lawVars, wireD, cmVars>>

\* A wire dict arrives from a client.
WireReceive ==
    /\ wirePc = "listening"
    /\ wire' \in ForeignWires
    /\ wirePc' = "received"
    /\ UNCHANGED <<pyDebug, machineVars, lawVars, wireC, wireD, cmVars>>

\* Change.deserialize(wire); 5 is the uuid drawn when the dict has no id.
WireDeserialize ==
    /\ wirePc \in {"serialized", "received"}
    /\ wireD' = Deserialize(wire, 5)
    /\ wirePc' = "deserialized"
    /\ UNCHANGED <<pyDebug, machineVars, lawVars, wireC, wire, cmVars>>

WireNext == LawApply \/ WireSerialize \/ WireReceive \/ WireDeserialize

WireSpec == WireInit /\ [][WireNext]_vars

\* ------------------------------------------------------------ ClientManager

\* What Client.send and ClientManager.send put on the sending queue, and what
\* Client.send_async writes to the websocket: make_message(type, **kwargs)
\* for a client.
Message(client, type, changes, action_id) ==
    [client |-> client, type |-> type, changes |-> changes, action_id |-> action_id]

\* A _handle_subscribe that sends the topic kind's default value.
SnapshotOfDefault(client, n, value, id) ==
    Message(client, "update",
            <<Serialize(SetChange(n, "unknown", DefaultValue(TopicKind(n)), PyNone, id))>>,
            "")

\* The update message of _handle_subscribe: one whole-value Set of the
\* topic's value, constructed with no expectation and a new id.
SnapshotMessage(client, n, value, id) ==
    Message(client, "update", <<Serialize(SetChange(n, "unknown", value, PyNone, id))>>, "")

\* A send_update that gives every recipient every change.
MessagesForAll(subs, cs, c) == [k \in 1..Len(cs) |-> Serialize(cs[k])]

\* messages_for_client[c] of send_update: the serialized changes whose topic
\* c is subscribed to, in the order of changes.
MessagesForClient(subs, cs, c) ==
    [j \in 1..Cardinality({k \in 1..Len(cs) : c \in subs[cs[k].topic_name]}) |->
        Serialize(cs[SortedSeq({k \in 1..Len(cs) : c \in subs[cs[k].topic_name]})[j]])]

\* The keys of messages_for_client: the clients subscribed to the topic of
\* one of the changes at least.
Recipients(subs, cs) == UNION {subs[cs[k].topic_name] : k \in 1..Len(cs)}

\* The change at which send_update first meets client c.
FirstMet(subs, cs, c) ==
    CHOOSE k \in 1..Len(cs) :
        /\ c \in subs[cs[k].topic_name]
        /\ \A j \in 1..(k - 1) : c \notin subs[cs[j].topic_name]

\* The orders in which messages_for_client can hold its keys: a client met
\* at an earlier change comes first; the clients of one subscription set are
\* met in the set's iteration order, which is any order.
ClientOrders(subs, cs) ==
    {p \in [1..Cardinality(Recipients(subs, cs)) -> Recipients(subs, cs)] :
        /\ \A i, j \in DOMAIN p : i # j => p[i] # p[j]
        /\ \A i, j \in DOMAIN p :
              i < j => FirstMet(subs, cs, p[i]) <= FirstMet(subs, cs, p[j])}

\* A send_update that puts its messages at the head of the sending queue.
SendUpdateFirst(queue, subs, cs, action_id, order) ==
    [j \in 1..Len(order) |->
        Message(order[j], "update", MessagesForClient(subs, cs, order[j]), action_id)]
    \o queue

\* send_update(changes, action_id): the sending queue afterwards, order being
\* the order of the keys of messages_for_client.
SendUpdate(queue, subs, cs, action_id, order) ==
    queue \o [j \in 1..Len(order) |->
                Message(order[j], "update", MessagesForClient(subs, cs, order[j]),
                        action_id)]

\* _cleanup_client(client): the client leaves every subscription.
CleanupClient(subs, c) == [n \in DOMAIN subs |-> subs[n] \ {c}]

\* The mutator calls that make up a Transition in this setting: set, append
\* and remove, each constructing its Change with no expectation.
CmChanges ==
    {SetChange("s", "string", PyStr(x), PyNone, 0) : x \in StrVals}
    \cup {SetChange("l", "set", PyList(l), PyNone, 0) : l \in {<<>>, <<2, 1>>}}
    \cup {AppendChange("l", i, 0) : i \in 1..MaxItem}
    \cup {RemoveChange("l", i, 0) : i \in 1..MaxItem}

\* The Transitions of at most MaxScope such changes; the k-th change gets the
\* k-th uuid after u.
CmTransitions(u) ==
    UNION {{[k \in 1..len |-> [cs[k] EXCEPT !.id = u + k]] : cs \in [1..len -> CmChanges]} :
              len \in 1..MaxScope}

\* The ClientManager is constructed; the server's topics hold their defaults.
CmInit ==
    /\ pyDebug = TRUE
    /\ topics = [n \in TopicNames |-> DefaultValue(TopicKind(n))]
    /\ open = <<>>
    /\ openPre = [topics |-> topics, delivered |-> 0]
    /\ scopeLog = <<>>
    /\ transitions = <<>>
    /\ tidCount = 0
    /\ hist = <<>>
    /\ last = Last("idle")
    /\ LawIdle
    /\ WireOff
    /\ CmIdle

\* handle_client up to its message loop: the client gets the next id, is
\* registered, and "hello" is written to its websocket at once.
CmConnect ==
    /\ cmClients < MaxClients
    /\ cmClients' = cmClients + 1
    /\ cmSent' = [cmSent EXCEPT ![cmClients + 1] =
                     <<Message(cmClients + 1, "hello", <<>>, "")>>]
    /\ cmLast' = CmOp("connect", cmClients + 1, "", sendingQueue, subscriptions, <<>>, "")
    /\ UNCHANGED <<pyDebug, machineVars, lawVars, wireVars, cmClosed, subscriptions,
                   sendingQueue, cmCommits, cmUuids>>

\* _handle_subscribe(sender, topic_name), on a "subscribe" message of a
\* connected client: _get_topic_value gives the topic's value.
CmSubscribe ==
    /\ cmUuids < MaxUuids
    /\ Len(sendingQueue) < MaxQueue
    /\ \E c \in (1..cmClients) \ cmClosed, n \in TopicNames :
          /\ subscriptions' = [subscriptions EXCEPT ![n] = @ \cup {c}]
          /\ sendingQueue' =
                Append(sendingQueue, SnapshotMessage(c, n, topics[n], cmUuids + 1))
          /\ cmLast' = CmOp("subscribe", c, n, sendingQueue, subscriptions, <<>>, "")
    /\ cmUuids' = cmUuids + 1
    /\ UNCHANGED <<pyDebug, machineVars, lawVars, wireVars, cmClients, cmClosed, cmSent,
                   cmCommits>>

\* The Transition res.changes has been committed, its changes applied to
\* the topics, and the transition callback hands it to send_update.
CmCommitted(res, order) ==
    /\ res.err = "none"
    /\ Len(sendingQueue) + Len(order) <= MaxQueue
    /\ topics' = res.topics
    /\ cmCommits' = cmCommits + 1
    /\ cmUuids' = cmUuids + Len(res.changes)
    /\ sendingQueue' = SendUpdate(sendingQueue, subscriptions, res.changes,
                                  ToString(cmCommits + 1), order)
    /\ cmLast' = CmOp("send_update", 0, "", sendingQueue, subscriptions, res.changes,
                      ToString(cmCommits + 1))

\* A Transition is committed and broadcast: send_update(changes, action_id).
CmCommit ==
    /\ \E cs \in CmTransitions(cmUuids) :
          /\ cmUuids + Len(cs) <= MaxUuids
          /\ \E order \in ClientOrders(subscriptions, cs) :
                CmCommitted(Replay(topics, cs, 1, NoFault), order)
    /\ UNCHANGED <<pyDebug, open, openPre, scopeLog, transitions, tidCount, hist, last,
                   lawVars, wireVars, cmClients, cmClosed, subscriptions, cmSent>>

\* The messages of the sending queue that are for client c, in queue order.
Pending(queue, c) == SelectSeq(queue, LAMBDA m : m.client = c)

\* Sequence s is a prefix of sequence t.
IsPrefix(s, t) == Len(s) <= Len(t) /\ SubSeq(t, 1, Len(s)) = s

\* The number of the commit whose updates carry action_id a.
ActionNo(a) == CHOOSE k \in 1..MaxUuids : ToString(k) = a

\* A run() that takes the newest message off the queue instead of the
\* oldest.
CmRunNewestFirst ==
    /\ sendingQueue # <<>>
    /\ sendingQueue' = SubSeq(sendingQueue, 1, Len(sendingQueue) - 1)
    /\ IF sendingQueue[Len(sendingQueue)].client \in cmClosed
       THEN /\ subscriptions' =
                  CleanupClient(subscriptions, sendingQueue[Len(sendingQueue)].client)
            /\ UNCHANGED cmSent
       ELSE /\ cmSent' = [cmSent EXCEPT ![sendingQueue[Len(sendingQueue)].client] =
                              Append(@, sendingQueue[Len(sendingQueue)])]
            /\ UNCHANGED subscriptions
    /\ cmLast' = CmOp("run", sendingQueue[Len(sendingQueue)].client, "", sendingQueue,
                      subscriptions, <<>>, "")
    /\ UNCHANGED <<pyDebug, machineVars, lawVars, wireVars, cmClients, cmClosed, cmCommits,
                   cmUuids>>

\* One turn of the loop of run(): the oldest message is taken off the queue
\* and written to its client's websocket; when that raises ConnectionClosed
\* the client is cleaned up.
CmRun ==
    /\ sendingQueue # <<>>
    /\ sendingQueue' = Tail(sendingQueue)
    /\ IF Head(sendingQueue).client \in cmClosed
       THEN /\ subscriptions' = CleanupClient(subscriptions, Head(sendingQueue).client)
            /\ UNCHANGED cmSent
       ELSE /\ cmSent' = [cmSent EXCEPT ![Head(sendingQueue).client] =
                              Append(@, Head(sendingQueue))]
            /\ UNCHANGED subscriptions
    /\ cmLast' = CmOp("run", Head(sendingQueue).client, "", sendingQueue, subscriptions,
                      <<>>, "")
    /\ UNCHANGED <<pyDebug, machineVars, lawVars, wireVars, cmClients, cmClosed, cmCommits,
                   cmUuids>>

\* A client's websocket closes. handle_client's message loop ends: with
\* ConnectionClosed raised into it, and the client cleaned up, when the close
\* was not a normal one; without cleanup when it was.
CmClose ==
    /\ \E c \in (1..cmClients) \ cmClosed :
          /\ cmClosed' = cmClosed \cup {c}
          /\ \/ subscriptions' = CleanupClient(subscriptions, c)
             \/ UNCHANGED subscriptions
          /\ cmLast' = CmOp("close", c, "", sendingQueue, subscriptions, <<>>, "")
    /\ UNCHANGED <<pyDebug, machineVars, lawVars, wireVars, cmClients, sendingQueue, cmSent,
                   cmCommits, cmUuids>>

CmNext == CmConnect \/ CmSubscribe \/ CmCommit \/ CmRun \/ CmClose

CmSpec == CmInit /\ [][CmNext]_vars

\* The ClientManager with its run() task scheduled: run() loops for ever, and
\* asyncio resumes it whenever the queue holds a message and the write to the
\* websocket it waits for has returned or raised.
CmFairSpec == CmSpec /\ WF_vars(CmRun)

\* ------------------------------------------------------------ a subscriber

\* The changes of topic n that an update message carries, in the message's
\* order, each with the message's action_id.
TopicWires(m, n) ==
    [j \in 1..Cardinality({k \in DOMAIN m.changes : m.changes[k].topic_name = n}) |->
        [change |-> m.changes[SortedSeq({k \in DOMAIN m.changes :
                                            m.changes[k].topic_name = n})[j]],
         action_id |-> m.action_id]]

\* A client's stream for topic n: the changes of n in the messages written
\* to its websocket, in delivery order.
RECURSIVE Stream(_, _)
Stream(msgs, n) ==
    IF msgs = <<>> THEN <<>>
    ELSE TopicWires(Head(msgs), n) \o Stream(Tail(msgs), n)

\* A subscriber's copy of a topic: unknown until a snapshot has come; err is
\* the failure of the first change that did not apply to the copy.
View(known, value, err) == [known |-> known, value |-> value, err |-> err]

\* The subscriber takes one change of its stream: a whole-value Set sent
\* with action_id "" starts the copy, any other change is applied to it.
SubscriberStep(st, e, r) ==
    IF e.action_id = "" /\ e.change.type = "set"
    THEN View(TRUE, e.change.value, "none")
    ELSE IF ~st.known THEN View(FALSE, st.value, "NoSnapshot")
    ELSE View(TRUE, r.value, r.err)

\* The copy after the changes es[k..] have been taken in order.
RECURSIVE SubscriberReplay(_, _, _)
SubscriberReplay(es, k, st) ==
    IF k > Len(es) \/ st.err # "none" THEN st
    ELSE SubscriberReplay(es, k + 1,
            SubscriberStep(st, es[k],
                Apply(Construct(es[k].change.topic_type, es[k].change.type,
                                es[k].change, 0),
                      st.value, 0)))

\* Client c's copy of topic n after everything delivered to it so far.
SubscriberView(c, n) ==
    SubscriberReplay(Stream(cmSent[c], n), 1, View(FALSE, PyNone, "none"))

\* ------------------------------------------------------------------- claims

\* C1. Transaction atomicity: when a change inside a recording scope raises
\* InvalidChange and the rollback of the changes applied before it has run
\* without an error of its own, every topic those changes touched has the
\* value it had when the scope was opened.
C1_Atomicity ==
    (last.op = "apply" /\ last.inScope /\ last.aborted
        /\ last.err = "InvalidChange" /\ last.rbErr = "none")
    => \A n \in Touched(last.log) : PyEq(topics[n], last.pre[n])

\* C2. Round-trip law: whenever c.apply(v) succeeds, c.inverse() applied to
\* the result succeeds and gives a value equal to v.
C2_RoundTrip ==
    lawPc = "inverted" => (lawB.err = "none" /\ PyEq(lawB.value, lawV))

\* C3. Undo/redo restore values: an undo of T that runs without error in the
\* state T produced leaves every topic T touched at its value before T's
\* scope opened; a redo of T right after that undo, running without error,
\* leaves them at their values right after the scope committed.
C3_UndoRedoRestore ==
    /\ (last.op = "undo" /\ hist[last.idx].scoped /\ last.inPost /\ last.err = "none")
       => \A n \in Touched(transitions[last.idx].changes) :
             PyEq(topics[n], hist[last.idx].pre[n])
    /\ (last.op = "redo" /\ hist[last.idx].scoped /\ last.afterUndo
           /\ last.err = "none")
       => \A n \in Touched(transitions[last.idx].changes) :
             PyEq(topics[n], hist[last.idx].post[n])

\* C4. A scope that exits normally forwards exactly one Transition, holding
\* exactly the changes applied inside the scope in the order of their
\* application; while the scope is open nothing is forwarded.
C4_ExitForwardsOnce ==
    /\ (open # <<>> => Len(transitions) = openPre.delivered)
    /\ (last.op = "exit"
        => /\ Len(transitions) = last.delivered + 1
           /\ transitions[Len(transitions)].changes = last.log)

C4_Witness == last.op = "exit" /\ Len(last.log) = MaxScope

\* C5. A scope that exits abnormally forwards nothing: the callback has
\* received what it had received before, and the aborted Transition with its
\* changes is dropped, so that nothing can forward it later.
C5_AbortForwardsNothing ==
    last.aborted
    => (transitions = SubSeq(transitions, 1, last.delivered)
        /\ Len(transitions) = last.delivered
        /\ Len(transitions) = openPre.delivered
        /\ open = <<>> /\ scopeLog = <<>>)

C5_Witness == last.aborted /\ Len(last.log) >= 1

\* C6. undo and redo forward no Transition and mint no Transition identity.
C6_ReplayForwardsNothing ==
    last.op \in {"undo", "redo"}
    => (Len(transitions) = last.delivered /\ tidCount = last.tids)

C6_Witness ==
    /\ last.op = "redo" /\ last.afterUndo /\ last.err = "none"
    /\ ~TopicsEq(topics, last.before)

\* C7. At most one Transition is being recorded; record() while one is open
\* is rejected and leaves the open Transition as it was.
C7_OneOpenTransition ==
    /\ Len(open) <= 1
    /\ (last.op = "record" /\ last.inScope)
       => (last.err = "ProgrammingError" /\ Len(open) = 1 /\ open[1] = last.log)

C7_Witness ==
    last.op = "record" /\ last.err = "ProgrammingError" /\ Len(open[1]) >= 1

\* C8. A whole-value Set whose expected prior value differs from the topic's
\* value is rejected with InvalidChange and leaves the value unchanged.
C8_StaleSetRejected ==
    (last.op = "apply" /\ last.input.type = "set"
        /\ ~PyEq(last.input.old_value, PyNone)
        /\ ~PyEq(last.input.old_value, last.before[last.topic]))
    => (last.err = "InvalidChange" /\ PyEq(last.value, last.before[last.topic]))

\* C9. When a validator rejects the new value, the apply is rejected with
\* InvalidChange, the value is unchanged and no listener is notified.
C9_ValidatorRejects ==
    (last.op = "apply" /\ last.stage = "validate")
    => (last.err = "InvalidChange" /\ PyEq(last.value, last.before[last.topic])
        /\ last.events = <<>>)

\* C10. When a listener raises during the notification of a validated
\* change, the topic's value when apply_change gives control back is the
\* value before the apply, and the listener's error is what reaches the
\* caller.
C10_ListenerFailureRestores ==
    (last.op = "apply" /\ last.stage = "notify")
    => (/\ last.err = "ListenerError"
        /\ PyEq(last.value, last.before[last.topic])
        /\ (~last.aborted => PyEq(topics[last.topic], last.before[last.topic])))

C10_Witness ==
    /\ last.op = "apply" /\ last.stage = "notify" /\ last.err = "ListenerError"
    /\ last.input.type = "append" /\ Len(last.events) = 2

\* C11. Duplicate rejection: an Append of an item the set-as-list topic
\* already holds raises InvalidChange before any listener is notified, and
\* the topic's value is what it was.
C11_DuplicateAppendRejected ==
    (last.op = "apply" /\ last.input.type = "append"
        /\ PyIn(last.input.item, last.before[last.topic].v))
    => (/\ last.err = "InvalidChange"
        /\ last.stage = "apply"
        /\ last.events = <<>>
        /\ PyEq(last.value, last.before[last.topic])
        /\ (~last.aborted => PyEq(topics[last.topic], last.before[last.topic])))

C11_Witness ==
    /\ last.op = "apply" /\ last.input.type = "append" /\ ~last.aborted
    /\ last.err = "InvalidChange"
    /\ Len(last.before[last.topic].v) = 2
    /\ last.before[last.topic].v[2] = last.input.item

\* C12. Missing-key rejection: a dict Remove of a key the dict does not hold
\* raises InvalidChange, from the change's apply and so from the topic's
\* validation of the change, and the value is what it was.
C12_MissingKeyRejected ==
    (lawPc = "applied" /\ lawC.topic_type = "dict" /\ lawC.type = "remove"
        /\ lawC.key \notin DOMAIN lawV.v)
    => (/\ lawR.err = "InvalidChange"
        /\ PyEq(lawR.value, lawV)
        /\ ValidateChangeAndGetResult(lawV, "dict", lawC, 2)
              = Applied("InvalidChange", "apply", lawV, lawC, <<>>))

C12_Witness ==
    /\ lawPc = "applied" /\ lawC.topic_type = "dict" /\ lawC.type = "remove"
    /\ lawC.key \notin DOMAIN lawV.v /\ DOMAIN lawV.v # {}
    /\ lawR.err = "InvalidChange"

\* C13. Serialization fidelity: Change.deserialize(c.serialize()) succeeds
\* and gives a Change that serializes as c does (same topic kind, operation
\* kind, id, topic name and payload), whose apply to the value c is for gives
\* what c's apply gives, and whose inverse after that apply is c's.
C13_SerializationFidelity ==
    (wirePc = "deserialized" /\ wireC # NoChange)
    => (/\ wireD.err = "none"
        /\ Serialize(wireD.change) = wire
        /\ Apply(wireD.change, lawV, 2).err = Apply(wireC, lawV, 2).err
        /\ Apply(wireD.change, lawV, 2).value = Apply(wireC, lawV, 2).value
        /\ Inverse(Apply(wireD.change, lawV, 2).change, 3)
              = Inverse(Apply(wireC, lawV, 2).change, 3))

C15_ChangeValueRegeneratesId ==
    (lawPc \in {"applied", "inverted"} /\ lawC.type = "change_value")
    => IF lawC.key \notin DOMAIN lawV.v
       THEN lawR.err = "InvalidChange" /\ PyEq(lawR.value, lawV)
       ELSE /\ lawR.err = "none"
            /\ lawR.value = PyDict([lawV.v EXCEPT ![lawC.key] = lawC.value])
            /\ PyEq(lawR.change.old_value, lawV.v[lawC.key])
            /\ (PyEq(lawC.old_value, lawV.v[lawC.key]) <=> lawR.change.id = lawC.id)
            /\ (lawPc = "inverted"
                => /\ lawB.change.type = "change_value"
                   /\ PyEq(lawB.change.value, lawV.v[lawC.key]))

C15_Witness ==
    /\ lawPc = "inverted" /\ lawC.type = "change_value"
    /\ lawC.key \in DOMAIN lawV.v
    /\ ~PyEq(lawC.old_value, PyNone)
    /\ ~PyEq(lawC.old_value, lawV.v[lawC.key])
    /\ lawR.change.id # lawC.id

\* C16. Diff-based notification: a whole-value Set of a set-as-list topic
\* that is applied and notified invokes on_remove once for each item of the
\* old value that the new value lacks, on_append once for each item of the
\* new value that the old value lacks, and neither for any other item.
C16_DiffNotification ==
    (last.op = "apply" /\ last.err = "none" /\ TopicKind(last.topic) = "set"
        /\ last.input.type = "set")
    => /\ \A i \in 1..MaxItem :
            /\ EventCount(last.events, "on_remove", i)
                 = (IF PyIn(i, last.before[last.topic].v) /\ ~PyIn(i, last.value.v)
                    THEN 1 ELSE 0)
            /\ EventCount(last.events, "on_append", i)
                 = (IF PyIn(i, last.value.v) /\ ~PyIn(i, last.before[last.topic].v)
                    THEN 1 ELSE 0)
       /\ \A k \in 1..Len(last.events) :
            last.events[k].ev = "on_set" \/ last.events[k].item \in 1..MaxItem

C16_Witness ==
    /\ last.op = "apply" /\ last.err = "none" /\ last.topic = "l"
    /\ last.input.type = "set"
    /\ last.before["l"].v = <<1, 1>> /\ last.value.v = <<2>>
    /\ EventCount(last.events, "on_remove", 1) = 1
    /\ EventCount(last.events, "on_append", 2) = 1

\* C17. In every reachable state a string topic holds a string and a
\* set-as-list topic holds a list, whatever changes were accepted or
\* rejected, whatever listener failed, and whatever was rolled back, undone
\* or redone.
C17_BaseTypeInvariant ==
    \A n \in TopicNames :
        topics[n].t = (IF TopicKind(n) = "string" THEN "str" ELSE "list")

C17_Witness ==
    /\ last.op = "apply" /\ last.stage = "validate"
    /\ last.topic = "s" /\ last.input.value.t = "int"
    /\ last.aborted /\ Len(last.log) >= 1

\* C18. The inverse of an applied Change is addressed to the same topic
\* name, tagged with the same topic kind, and of the operation kind the
\* operation table gives: Set for Set, Add of the negated delta for Add,
\* Remove for Append, Append (dict: Add) for Remove, ChangeValue for
\* ChangeValue, ReversedEmit for Emit and Emit for ReversedEmit.
C18_InverseSameTopicAndKind ==
    lawPc = "inverted"
    => (/\ lawB.change.topic_name = lawC.topic_name
        /\ lawB.change.topic_type = lawC.topic_type
        /\ lawB.change.type =
              (CASE lawC.type = "append" -> "remove"
                 [] lawC.type = "remove" /\ lawC.topic_type = "set" -> "append"
                 [] lawC.type = "remove" /\ lawC.topic_type = "dict" -> "add"
                 [] lawC.type = "add" /\ lawC.topic_type = "dict" -> "remove"
                 [] lawC.type = "emit" -> "reversed_emit"
                 [] lawC.type = "reversed_emit" -> "emit"
                 [] OTHER -> lawC.type)
        /\ (lawC.type = "add" /\ lawC.topic_type \in {"int", "float"}
            => lawB.change.value = PyNeg(lawC.value)))

\* C19. A subscribe request enqueues exactly one message, for the
\* subscribing client: an update with action_id "" carrying a single
\* whole-value Set of the topic with the topic's value at that moment; the
\* client is subscribed to the topic, and a subscription ends only when its
\* client is cleaned up.
C19_SubscribeSnapshot ==
    /\ cmLast.op = "subscribe"
       => /\ Len(sendingQueue) = Len(cmLast.queue) + 1
          /\ SubSeq(sendingQueue, 1, Len(cmLast.queue)) = cmLast.queue
          /\ sendingQueue[Len(sendingQueue)].client = cmLast.client
          /\ sendingQueue[Len(sendingQueue)].type = "update"
          /\ sendingQueue[Len(sendingQueue)].action_id = ""
          /\ Len(sendingQueue[Len(sendingQueue)].changes) = 1
          /\ sendingQueue[Len(sendingQueue)].changes[1].type = "set"
          /\ sendingQueue[Len(sendingQueue)].changes[1].topic_name = cmLast.topic
          /\ PyEq(sendingQueue[Len(sendingQueue)].changes[1].value, topics[cmLast.topic])
          /\ cmLast.client \in subscriptions[cmLast.topic]
    /\ \A n \in TopicNames : \A c \in cmLast.subs[n] :
          c \notin subscriptions[n] => (cmLast.op \in {"run", "close"} /\ cmLast.client = c)

C19_Witness ==
    /\ cmLast.op = "subscribe" /\ cmLast.topic = "l"
    /\ topics["l"] = PyList(<<2, 1>>)
    /\ cmLast.queue # <<>>
    /\ sendingQueue[Len(sendingQueue)].changes[1].value = PyList(<<2, 1>>)

\* C20. send_update(changes, action_id) enqueues, after what the queue
\* held, exactly one message for each client subscribed to the topic of one
\* of the changes at least: an update with that action_id carrying the
\* serialized changes whose topic the client is subscribed to, all of them
\* and in their order in changes; no other client gets a message.
C20_SendUpdateFanOut ==
    cmLast.op = "send_update"
    => /\ SubSeq(sendingQueue, 1, Len(cmLast.queue)) = cmLast.queue
       /\ \A c \in 1..MaxClients :
            Cardinality({k \in (Len(cmLast.queue) + 1)..Len(sendingQueue) :
                            sendingQueue[k].client = c})
              = (IF \E j \in DOMAIN cmLast.changes :
                        c \in cmLast.subs[cmLast.changes[j].topic_name]
                 THEN 1 ELSE 0)
       /\ \A k \in (Len(cmLast.queue) + 1)..Len(sendingQueue) :
            /\ sendingQueue[k].type = "update"
            /\ sendingQueue[k].action_id = cmLast.action_id
            /\ \E f \in [DOMAIN sendingQueue[k].changes -> DOMAIN cmLast.changes] :
                  /\ \A i, j \in DOMAIN f : i < j => f[i] < f[j]
                  /\ {f[i] : i \in DOMAIN f}
                       = {j \in DOMAIN cmLast.changes :
                             sendingQueue[k].client
                                 \in cmLast.subs[cmLast.changes[j].topic_name]}
                  /\ \A i \in DOMAIN f :
                        sendingQueue[k].changes[i] = Serialize(cmLast.changes[f[i]])

C20_Witness ==
    /\ cmLast.op = "send_update" /\ cmClients = 2
    /\ Len(cmLast.changes) = 2
    /\ cmLast.changes[1].topic_name = "s" /\ cmLast.changes[2].topic_name = "l"
    /\ cmLast.subs["s"] = {} /\ cmLast.subs["l"] = {1}
    /\ Len(sendingQueue) = Len(cmLast.queue) + 1
    /\ Len(sendingQueue[Len(sendingQueue)].changes) = 1


\* C21. For a connected client subscribed to a topic, once no message for
\* it waits in the sending queue, the changes of that topic delivered to it,
\* taken in delivery order from the snapshot on, all apply and leave the
\* client's copy equal to the server's value of the topic.
C21_StreamReproducesValue ==
    \A c \in (1..cmClients) \ cmClosed : \A n \in TopicNames :
        (c \in subscriptions[n]
         /\ \A k \in DOMAIN sendingQueue : sendingQueue[k].client # c)
        => /\ SubscriberView(c, n).known
           /\ SubscriberView(c, n).err = "none"
           /\ PyEq(SubscriberView(c, n).value, topics[n])

C21_Witness ==
    /\ sendingQueue = <<>>
    /\ 1 \notin cmClosed /\ 1 \in subscriptions["l"]
    /\ Len(Stream(cmSent[1], "l")) = 3
    /\ Stream(cmSent[1], "l")[1].action_id = ""
    /\ Stream(cmSent[1], "l")[2].action_id = "1"
    /\ Stream(cmSent[1], "l")[3].action_id = "2"
    /\ topics["l"] # PyList(<<>>)
    /\ PyEq(SubscriberView(1, "l").value, topics["l"])


\* C22. What has been written to a connected client's websocket, followed
\* by what the sending queue holds for it, only ever grows at its end, and
\* what has been written only grows: the messages enqueued for a client are
\* sent to it in the order of their enqueueing, none lost and none twice; the
\* updates delivered to a client come in commit order. A turn of run() whose
\* send fails on a closed connection removes that client from every
\* subscription, touches no other subscription and leaves the rest of the
\* queue as it was; and delivery goes on: a connected client with a message
\* waiting in the queue gets a further message, unless it closes first.
C22_OrderedDelivery ==
    /\ [][/\ \A c \in 1..MaxClients :
               c \notin cmClosed'
               => /\ IsPrefix(cmSent[c], cmSent'[c])
                  /\ IsPrefix(cmSent[c] \o Pending(sendingQueue, c),
                              cmSent'[c] \o Pending(sendingQueue', c))
                  /\ \A i, j \in DOMAIN cmSent'[c] :
                        (i < j /\ cmSent'[c][i].action_id # ""
                               /\ cmSent'[c][j].action_id # "")
                        => ActionNo(cmSent'[c][i].action_id)
                              < ActionNo(cmSent'[c][j].action_id)
          /\ (cmLast'.op = "run" /\ cmLast'.client \in cmClosed)
             => /\ \A n \in TopicNames :
                      subscriptions'[n] = subscriptions[n] \ {cmLast'.client}
                /\ cmSent' = cmSent
                /\ sendingQueue' = Tail(sendingQueue)
                /\ Head(sendingQueue).client = cmLast'.client]_vars
    /\ \A c \in 1..MaxClients : \A j \in 0..(MaxUuids + 1) :
          (c \notin cmClosed /\ Len(cmSent[c]) = j /\ Pending(sendingQueue, c) # <<>>)
          ~> (c \in cmClosed \/ Len(cmSent[c]) > j)

C22_Witness ==
    /\ cmLast.op = "run" /\ cmLast.client = 1 /\ 1 \in cmClosed
    /\ 1 \in cmLast.subs["l"] /\ 1 \notin subscriptions["l"]
    /\ 2 \notin cmClosed /\ 2 \in subscriptions["l"]
    /\ Len(cmLast.queue) = 2
    /\ cmLast.queue[1].action_id = "1" /\ cmLast.queue[2].action_id = "1"
    /\ Pending(sendingQueue, 2) # <<>>
    /\ Len(cmSent[2]) = 2


\* C23. The value of a set-as-list topic that started from the empty
\* default holds no item twice, whatever accepted Set, Append and Remove
\* changes, and inverses of them, have been applied to it.
C23_NoItemTwice ==
    \A n \in TopicNames :
        (TopicKind(n) = "set" /\ topics[n].t = "list")
        => \A i, j \in DOMAIN topics[n].v : i # j => topics[n].v[i] # topics[n].v[j]

====
